---- MODULE Spec2Model ----
(***************************************************************************)
(* The pagination / fetch-state logic of src/App.tsx (component App).      *)
(*                                                                         *)
(* State: the seven useState cells of App, plus the set of                 *)
(* fetchCharacters calls suspended at their `await fetch(...)`.  One       *)
(* action per handler: the mount effect, loadMore (FlatList.onEndReached), *)
(* the retry button, the card press, the modal's back button, and the      *)
(* continuation of fetchCharacters after its await.  A handler is enabled  *)
(* where the JSX renders the element that carries it.                      *)
(*                                                                         *)
(* History variables (not program state): mounted, ev, last, pages, and    *)
(* the fields by/stale/prev of an in-flight record.                        *)
(***************************************************************************)
EXTENDS Integers, Sequences, FiniteSets, TLC

\* ---- bounds of the model ------------------------------------------------
MaxId == 2          \* entity ids are 1..MaxId
MaxPageLen == 2     \* a response carries at most MaxPageLen entities
MaxPage == 3        \* loadMore is not followed past this page number

\* ---- values -------------------------------------------------------------
NoError == "null"
ErrorMessage == "Nao foi possivel carregar personagens. Tente novamente."
NoSelection == 0

Ids == 1..MaxId

RECURSIVE SeqsUpTo(_)
SeqsUpTo(n) ==
    IF n = 0 THEN {<<>>}
    ELSE LET shorter == SeqsUpTo(n - 1)
         IN  shorter \cup {Append(s, i) : s \in {t \in shorter : Len(t) = n - 1}, i \in Ids}

\* json.results of a response: any short sequence of entities
PageContents == SeqsUpTo(MaxPageLen)

\* What one `fetch` + `res.json()` can produce.
\*   kind "network": fetch() rejects            kind "http": res.ok is false
\*   kind "badjson": res.json() rejects         kind "nulljson": the body is JSON null
\*   kind "json":    the body is a JSON object; hasResults says whether it has
\*                   the field results, info is "url" (info.next is a string),
\*                   "null" (info.next is null) or "missing" (no info field).
FailureOutcomes ==
    {[kind |-> k, hasResults |-> FALSE, results |-> <<>>, info |-> "missing"] :
        k \in {"network", "http", "badjson"}}

EnvelopeOutcomes ==
    {[kind |-> "json", hasResults |-> TRUE, results |-> r, info |-> i] :
        r \in PageContents, i \in {"url", "null"}}

\* responses of a server that keeps to {results: Entity[], info: {next}}
ConformingOutcomes == FailureOutcomes \cup EnvelopeOutcomes

\* successful-status responses that deviate from the envelope
MalformedOutcomes ==
    {[kind |-> "nulljson", hasResults |-> FALSE, results |-> <<>>, info |-> "missing"]}
    \cup {[kind |-> "json", hasResults |-> FALSE, results |-> <<>>, info |-> i] :
            i \in {"url", "null", "missing"}}
    \cup {[kind |-> "json", hasResults |-> TRUE, results |-> r, info |-> "missing"] :
            r \in PageContents}

NoOutcome == [kind |-> "none", hasResults |-> FALSE, results |-> <<>>, info |-> "missing"]
NoFetch == [n |-> 0, p |-> 0, by |-> "none", stale |-> FALSE, prev |-> <<>>]

VARIABLES
    characters,     \* useState<Character[]>([]): the ids of the list, in order
    undef,          \* TRUE iff the cell characters holds `undefined`
    page,           \* useState(1)
    loading,        \* useState(false)
    loadingMore,    \* useState(false)
    hasMore,        \* useState(true)
    selected,       \* useState<Character | null>(null): an id, or NoSelection
    error,          \* useState<string | null>(null)
    inflight,       \* fetchCharacters calls suspended at `await fetch`
    crashed,        \* a state updater threw while rendering: the tree is gone
    mounted,        \* history: the mount effect has run
    ev,             \* history: the last handler that ran
    last,           \* history: the last fetch that completed, with its outcome
    pages           \* history: the page numbers whose results make up characters

prog == <<characters, undef, page, loading, loadingMore, hasMore, selected, error>>
vars == <<characters, undef, page, loading, loadingMore, hasMore, selected, error,
          inflight, crashed, mounted, ev, last, pages>>

Init ==
    /\ characters = <<>>
    /\ undef = FALSE
    /\ page = 1
    /\ loading = FALSE
    /\ loadingMore = FALSE
    /\ hasMore = TRUE
    /\ selected = NoSelection
    /\ error = NoError
    /\ inflight = {}
    /\ crashed = FALSE
    /\ mounted = FALSE
    /\ ev = "init"
    /\ last = [f |-> NoFetch, o |-> NoOutcome]
    /\ pages = <<>>

\* ---- what the JSX renders -----------------------------------------------
RetryVisible == ~loading /\ error # NoError

\* a list that is rendered whatever the error
ListVisible_ignoresError == ~loading

ListVisible == ~loading /\ error = NoError
ModalVisible == selected # NoSelection

\* The phase of the specification, read off the cells the way the JSX reads them.
Phase ==
    IF loading THEN "InitialLoading"
    ELSE IF loadingMore THEN "IncrementalLoading"
    ELSE IF error # NoError THEN "Failed"
    ELSE IF ~mounted THEN "Idle"
    ELSE IF hasMore THEN "Ready"
    ELSE "Exhausted"

\* ---- fetchCharacters, up to its first await -------------------------------
FreshN == CHOOSE n \in 1..(Cardinality(inflight) + 1) : \A f \in inflight : f.n # n

\* a start that forgets setError(null)
fetchCharactersBegin_keepsError(p, by) ==
    /\ loading' = IF p = 1 THEN TRUE ELSE loading
    /\ loadingMore' = IF p = 1 THEN loadingMore ELSE TRUE
    /\ UNCHANGED error
    /\ inflight' =
         {[f EXCEPT !.stale = f.stale \/ p = 1] : f \in inflight}
         \cup {[n |-> FreshN, p |-> p, by |-> by, stale |-> FALSE, prev |-> characters]}

fetchCharactersBegin(p, by) ==
    /\ loading' = IF p = 1 THEN TRUE ELSE loading
    /\ loadingMore' = IF p = 1 THEN loadingMore ELSE TRUE
    /\ error' = NoError
    /\ inflight' =
         {[f EXCEPT !.stale = f.stale \/ p = 1] : f \in inflight}
         \cup {[n |-> FreshN, p |-> p, by |-> by, stale |-> FALSE, prev |-> characters]}

\* useEffect(() => { fetchCharacters(1) }, [])
Mount ==
    /\ ~mounted /\ ~crashed
    /\ mounted' = TRUE
    /\ fetchCharactersBegin(1, "mount")
    /\ ev' = "mount"
    /\ UNCHANGED <<characters, undef, page, hasMore, selected, crashed, last, pages>>

\* const next = page + 1: the page loadMore requests
nextPage == page + 1

\* an early return that forgets the incremental load in flight
loadMoreReturns_noLoadingMore == loading \/ ~hasMore

\* an early return that forgets the end of the data
loadMoreReturns_noHasMore == loadingMore \/ loading

\* the early return of loadMore
loadMoreReturns == loadingMore \/ loading \/ ~hasMore

\* FlatList.onEndReached = loadMore.  The list delivers events only while it
\* is rendered, and only after the mount effect of the first commit has run.
LoadMore ==
    /\ mounted /\ ~crashed /\ ListVisible
    /\ IF loadMoreReturns
       THEN /\ ev' = "loadMoreReturn"
            /\ UNCHANGED <<characters, undef, page, loading, loadingMore, hasMore,
                           selected, error, inflight, crashed, mounted, last, pages>>
       ELSE /\ page < MaxPage
            /\ page' = nextPage
            /\ fetchCharactersBegin(nextPage, "loadMore")
            /\ ev' = "loadMore"
            /\ UNCHANGED <<characters, undef, hasMore, selected, crashed, mounted, last, pages>>

\* the page the retry button asks for
retryPage == 1

\* <Button title="Tentar novamente" onPress={() => fetchCharacters(1)} />
\* (the modal, when open, covers the screen: transparent={false})
RetryPress ==
    /\ mounted /\ ~crashed /\ RetryVisible /\ ~ModalVisible
    /\ fetchCharactersBegin(retryPage, "retry")
    /\ ev' = "retry"
    /\ UNCHANGED <<characters, undef, page, hasMore, selected, crashed, mounted, last, pages>>

\* a card press that also fetches the entity it opens
SelectItem_fetchesDetail ==
    /\ mounted /\ ~crashed /\ ListVisible /\ ~ModalVisible
    /\ \E i \in 1..Len(characters) : selected' = characters[i]
    /\ ev' = "select"
    /\ inflight' = inflight \cup
         {[n |-> FreshN, p |-> page, by |-> "select", stale |-> FALSE, prev |-> characters]}
    /\ UNCHANGED <<characters, undef, page, loading, loadingMore, hasMore, error,
                   crashed, mounted, last, pages>>

\* renderCard: onPress={() => setSelected(item)}
SelectItem ==
    /\ mounted /\ ~crashed /\ ListVisible /\ ~ModalVisible
    /\ \E i \in 1..Len(characters) : selected' = characters[i]
    /\ ev' = "select"
    /\ UNCHANGED <<characters, undef, page, loading, loadingMore, hasMore, error,
                   inflight, crashed, mounted, last, pages>>

\* the modal's back button: onPress={() => setSelected(null)}
CloseModal ==
    /\ mounted /\ ~crashed /\ ModalVisible
    /\ selected' = NoSelection
    /\ ev' = "close"
    /\ UNCHANGED <<characters, undef, page, loading, loadingMore, hasMore, error,
                   inflight, crashed, mounted, last, pages>>

\* ---- fetchCharacters, from its await to the end of finally ----------------
\* a hasMore that also looks at the entity list
hasMoreOf_nonEmpty(o) == o.info = "url" /\ o.results # <<>>

\* setHasMore(!!json.info && !!json.info.next)
hasMoreOf(o) == o.info = "url"

\* a merge that puts the new page first
mergeResults_prepend(p, prev, results) == IF p = 1 THEN results ELSE results \o prev

\* p === 1 ? results : [...prev, ...results]
mergeResults(p, prev, results) == IF p = 1 THEN results ELSE prev \o results

\* the body throws into catch: fetch rejected, !res.ok, res.json() rejected,
\* or json is null and json.results throws
throwsInTry(o) == o.kind \in {"network", "http", "badjson", "nulljson"}

\* the updater prev => [...prev, ...results] spreads undefined: it throws when
\* React runs it, outside the try of fetchCharacters
updaterThrows(p, o) == p # 1 /\ (undef \/ ~o.hasResults)

\* a catch that also empties the list
catchBlock_clearsList ==
    /\ error' = ErrorMessage
    /\ characters' = <<>>
    /\ UNCHANGED <<undef, hasMore>>

\* catch (e) { console.warn(...); setError("...") } that forgets setError
catchBlock_onlyWarns == UNCHANGED <<error, characters, undef, hasMore>>

\* catch (e) { console.warn(...); setError("...") }
catchBlock ==
    /\ error' = ErrorMessage
    /\ UNCHANGED <<characters, undef, hasMore>>

\* no finally: the flags are never cleared
finallyBlock_missing == UNCHANGED <<loading, loadingMore>>

\* a finally that clears only the flag of the initial load
finallyBlock_onlyLoading ==
    /\ loading' = FALSE
    /\ UNCHANGED loadingMore

\* finally { setLoading(false); setLoadingMore(false) }
finallyBlock ==
    /\ loading' = FALSE
    /\ loadingMore' = FALSE

fetchCharactersEnd(f, o) ==
    /\ inflight' = inflight \ {f}
    /\ last' = [f |-> f, o |-> o]
    /\ ev' = "settled"
    /\ UNCHANGED <<page, selected, mounted>>
    /\ IF throwsInTry(o)
       THEN /\ catchBlock
            /\ finallyBlock
            /\ UNCHANGED <<crashed, pages>>
       ELSE IF updaterThrows(f.p, o)
       THEN /\ crashed' = TRUE
            /\ UNCHANGED <<characters, undef, hasMore, loading, loadingMore, error, pages>>
       ELSE /\ characters' = IF o.hasResults
                             THEN mergeResults(f.p, characters, o.results)
                             ELSE <<>>
            /\ undef' = ~o.hasResults
            /\ pages' = IF f.p = 1 THEN <<1>> ELSE Append(pages, f.p)
            /\ hasMore' = hasMoreOf(o)
            /\ finallyBlock
            /\ UNCHANGED <<error, crashed>>

\* the awaited fetch settles with a response that keeps to the envelope, or fails
Settle ==
    /\ ~crashed
    /\ \E f \in inflight, o \in ConformingOutcomes : fetchCharactersEnd(f, o)

\* the awaited fetch settles with a successful status and a deviating payload
SettleMalformed ==
    /\ ~crashed
    /\ \E f \in inflight, o \in MalformedOutcomes : fetchCharactersEnd(f, o)

Next == Mount \/ LoadMore \/ RetryPress \/ SelectItem \/ CloseModal \/ Settle

\* the program against a server that keeps to the envelope
Spec == Init /\ [][Next]_vars

NextWire == Next \/ SettleMalformed

\* the program against a server that may also deviate from the envelope
SpecWire == Init /\ [][NextWire]_vars

TypeOK ==
    /\ characters \in Seq(Ids)
    /\ undef \in BOOLEAN
    /\ page \in 1..MaxPage
    /\ loading \in BOOLEAN /\ loadingMore \in BOOLEAN /\ hasMore \in BOOLEAN
    /\ selected \in Ids \cup {NoSelection}
    /\ error \in {NoError, ErrorMessage}
    /\ crashed \in BOOLEAN /\ mounted \in BOOLEAN

\* ---- steps, as the history variables show them ----------------------------
\* this step is the completion of the in-flight fetch f
SettledStep(f) == f \in inflight /\ f \notin inflight' /\ last'.f = f /\ ev' = "settled"

\* this step is a call of loadMore
LoadMoreStep == ev' \in {"loadMore", "loadMoreReturn"}

\* this step is a press of the retry button
RetryStep == ev' = "retry" /\ inflight' # inflight

Range(s) == {s[i] : i \in 1..Len(s)}

\* ---- C1 -------------------------------------------------------------------
\* C1: single-flight.  In every reachable state at most one fetchCharacters
\* call is in flight: no trigger issued while a fetch is outstanding starts a
\* second request.
SingleFlight == Cardinality(inflight) <= 1

\* loadMore was called while the page-2 fetch was outstanding, and returned
SingleFlight_witness ==
    /\ ev = "loadMoreReturn"
    /\ loadingMore
    /\ \E f \in inflight : f.p = 2 /\ inflight = {f}

\* ---- C2 -------------------------------------------------------------------
\* C2: append-only ordering.  Whenever the fetch of a page > 1 succeeds, the
\* new list is the old list followed by the page's entities in page order:
\* nothing removed, reordered, deduplicated or inserted.
AppendOnly ==
    [][\A f \in inflight :
          (SettledStep(f) /\ f.p > 1 /\ last'.o \in EnvelopeOutcomes)
          => (characters' = characters \o last'.o.results /\ ~undef')]_vars

\* a page of two entities was appended to a list that already held one of them
AppendOnly_witness ==
    /\ ev = "settled"
    /\ last.f.p > 1
    /\ last.o \in EnvelopeOutcomes
    /\ last.f.prev # <<>>
    /\ Len(last.o.results) = 2
    /\ last.o.results[1] # last.o.results[2]
    /\ last.o.results[1] \in Range(last.f.prev)
    /\ characters = last.f.prev \o last.o.results

\* ---- C3 -------------------------------------------------------------------
\* C3: exhaustion terminality.  Once the phase is Exhausted, no later step (a
\* loadMore call in particular, however often repeated) changes items or the
\* cursor or issues a fetch, and the phase stays Exhausted.
ExhaustedTerminal ==
    [][Phase = "Exhausted"
         => /\ Phase' = "Exhausted"
            /\ characters' = characters
            /\ page' = page
            /\ inflight = {} /\ inflight' = {}]_vars

\* loadMore was called on an exhausted, non-empty list, and returned
ExhaustedTerminal_witness ==
    /\ Phase = "Exhausted"
    /\ ev = "loadMoreReturn"
    /\ characters # <<>>
    /\ last.o.info = "null"

\* ---- C4 -------------------------------------------------------------------
\* C4: a failed incremental load keeps the data.  If loadMore was called with
\* items = L and its fetch fails, the resulting state has items = L, the error
\* set and no loading flag set (phase Failed).
IncrementalFailureKeepsItems ==
    [][\A f \in inflight :
          (SettledStep(f) /\ f.by = "loadMore" /\ last'.o \in FailureOutcomes)
          => /\ characters' = f.prev
             /\ ~undef'
             /\ error' # NoError
             /\ ~loading' /\ ~loadingMore'
             /\ Phase' = "Failed"]_vars

\* the page-2 fetch came back with a non-ok status on a list of two entities
IncrementalFailureKeepsItems_witness ==
    /\ ev = "settled"
    /\ last.f.by = "loadMore"
    /\ last.o.kind = "http"
    /\ Len(last.f.prev) = 2
    /\ characters = last.f.prev
    /\ Phase = "Failed"

\* ---- C5 -------------------------------------------------------------------
\* C5: failure of the initial load.  If the page-1 fetch issued at mount
\* fails, the resulting state has items = [] and phase Failed with the retry
\* button shown; pressing retry in that state issues the fetch of page 1.
InitialFailure ==
    [][/\ \A f \in inflight :
            (SettledStep(f) /\ f.by = "mount" /\ last'.o \in FailureOutcomes)
            => /\ characters' = <<>> /\ ~undef'
               /\ Phase' = "Failed"
               /\ RetryVisible'
       /\ (RetryStep /\ ev = "settled" /\ last.f.by = "mount" /\ last.o \in FailureOutcomes)
            => /\ \E g \in inflight' : inflight' = {g} /\ g.p = 1 /\ g.by = "retry"
               /\ characters' = <<>>]_vars

\* retry was pressed after the mount fetch failed with a non-ok status
InitialFailure_witness ==
    /\ ev = "retry"
    /\ last.f.by = "mount"
    /\ last.o.kind = "http"
    /\ characters = <<>>
    /\ \E g \in inflight : g.p = 1 /\ g.by = "retry"

\* ---- C6 -------------------------------------------------------------------
\* C6: retry keeps loaded pages.  When retry is pressed in phase Failed with a
\* non-empty list, the fetch issued is the one of the current cursor (the
\* page that failed), as an incremental load, and the list already loaded is
\* kept: neither at the press nor at the completion is it discarded or
\* replaced by page 1.
RetryKeepsLoaded ==
    [][/\ (RetryStep /\ characters # <<>>)
            => /\ \E g \in inflight' : inflight' = {g} /\ g.p = page
               /\ loadingMore' /\ ~loading'
               /\ characters' = characters
       /\ \A f \in inflight :
            (SettledStep(f) /\ f.by = "retry" /\ f.prev # <<>>
                /\ last'.o \in EnvelopeOutcomes)
            => characters' = f.prev \o last'.o.results]_vars

\* ---- C7 -------------------------------------------------------------------
\* C7 as stated: in every phase other than Ready a call of loadMore is a
\* no-op, that is, loadMore takes its early return in every state whose phase
\* is Idle, InitialLoading, IncrementalLoading, Exhausted or Failed.
LoadMoreReturnsUnlessReady == Phase # "Ready" => loadMoreReturns

\* C7 as amended: loadMore takes its early return in every state whose phase
\* is InitialLoading, IncrementalLoading or Exhausted; onEndReached calls it
\* only in the phases Ready, IncrementalLoading and Exhausted (the list is not
\* rendered in the others); and every call made in a phase other than Ready
\* changes no cell and issues no fetch.
LoadMoreNoOpWhereCalled ==
    [][/\ Phase \in {"InitialLoading", "IncrementalLoading", "Exhausted"} => loadMoreReturns
       /\ LoadMoreStep => Phase \in {"Ready", "IncrementalLoading", "Exhausted"}
       /\ (LoadMoreStep /\ Phase # "Ready")
            => /\ UNCHANGED <<characters, undef, page, loading, loadingMore, hasMore,
                              selected, error>>
               /\ UNCHANGED <<inflight, crashed>>]_vars

\* loadMore was called while the page-3 fetch was outstanding, with the error
\* cleared and the cursor already at 3
LoadMoreNoOpWhereCalled_witness ==
    /\ ev = "loadMoreReturn"
    /\ Phase = "IncrementalLoading"
    /\ page = 3
    /\ \E f \in inflight : f.p = 3 /\ f.prev = characters

\* ---- C8 -------------------------------------------------------------------
\* C8: after every successful fetch the phase is Ready if the envelope carries
\* a next-page indicator and Exhausted otherwise, whatever the entity list of
\* the page (empty or not).
HasMoreFromEnvelope ==
    (ev = "settled" /\ last.o \in EnvelopeOutcomes)
        => /\ hasMore = (last.o.info = "url")
           /\ Phase = IF last.o.info = "url" THEN "Ready" ELSE "Exhausted"

\* an empty page that carries a next indicator left the phase Ready
HasMoreFromEnvelope_witness ==
    /\ ev = "settled"
    /\ last.o \in EnvelopeOutcomes
    /\ last.o.results = <<>>
    /\ last.o.info = "url"
    /\ Phase = "Ready"

\* a non-empty page without a next indicator left the phase Exhausted
FinalPageNonEmpty_reached ==
    /\ ev = "settled"
    /\ last.o \in EnvelopeOutcomes
    /\ last.o.results # <<>>
    /\ last.o.info = "null"
    /\ Phase = "Exhausted"

\* ---- C9 -------------------------------------------------------------------
\* C9: decode failures are failures.  Every successful-status response whose
\* payload deviates from the envelope ends the fetch with the error set, both
\* flags cleared and items, hasMore unchanged: it is never merged nor taken
\* for a successful or final page.
DecodeFailuresFail ==
    [][\A f \in inflight :
          (SettledStep(f) /\ last'.o \in MalformedOutcomes)
          => /\ error' # NoError
             /\ ~loading' /\ ~loadingMore'
             /\ characters' = characters /\ undef' = undef
             /\ hasMore' = hasMore
             /\ ~crashed']_vars

\* ---- C10 ------------------------------------------------------------------
\* No page-1 load starts while another fetch is in flight, so no in-flight
\* fetch is ever older than the last reset.
NoStaleInFlight == \A f \in inflight : ~f.stale

\* ---- C11 ------------------------------------------------------------------
\* C11: every failure is recoverable.  In every reachable state of phase
\* Failed the retry button is rendered and can be pressed (once the detail
\* view, if open, is closed); the press issues a fetch; and when a fetch
\* issued by retry succeeds the phase becomes Ready or Exhausted.
Recoverable ==
    /\ [](Phase = "Failed"
            => /\ RetryVisible /\ inflight = {}
               /\ ~ModalVisible => ENABLED RetryPress
               /\ ModalVisible => ENABLED CloseModal)
    /\ [][/\ (RetryStep /\ Phase = "Failed")
               => \E g \in inflight' : inflight' = {g} /\ g.by = "retry"
          /\ \A f \in inflight :
               (SettledStep(f) /\ f.by = "retry" /\ last'.o \in EnvelopeOutcomes)
               => Phase' \in {"Ready", "Exhausted"}]_vars

\* a retry pressed after a failed incremental load came back with a page that
\* has a successor: the phase is Ready again
Recoverable_witness ==
    /\ ev = "settled"
    /\ last.f.by = "retry"
    /\ last.f.prev # <<>>
    /\ last.o \in EnvelopeOutcomes
    /\ last.o.info = "url"
    /\ Phase = "Ready"

\* ---- C12 ------------------------------------------------------------------
\* C12: an initial load starts from scratch.  Whenever a page-1 load has been
\* started (at mount or by retry), items is [] and the cursor is the first
\* page for as long as the phase is InitialLoading, and if that fetch fails
\* items is [] in the resulting Failed state.
InitialLoadFromScratch ==
    /\ Phase = "InitialLoading" => (characters = <<>> /\ page = 1)
    /\ (ev = "settled" /\ last.f.p = 1 /\ last.o \in FailureOutcomes)
         => characters = <<>>

\* ---- C13 ------------------------------------------------------------------
\* C13: selecting an item and closing the detail view issue no network request
\* and leave items, the cursor, hasMore, both loading flags and the error
\* unchanged; the detail view holds exactly the selected entity, which is one
\* of the list, and closing empties it.
SelectionIsLocal ==
    [][ev' \in {"select", "close"}
         => /\ UNCHANGED <<characters, undef, page, hasMore, loading, loadingMore, error>>
            /\ UNCHANGED <<inflight, crashed>>
            /\ ev' = "select" => (selected = NoSelection /\ selected' \in Range(characters))
            /\ ev' = "close" => (selected # NoSelection /\ selected' = NoSelection)]_vars

\* the second of two different entities was selected while the page-2 fetch
\* was still in flight
SelectionIsLocal_witness ==
    /\ ev = "select"
    /\ Len(characters) = 2
    /\ characters[1] # characters[2]
    /\ selected = characters[2]
    /\ \E f \in inflight : f.p = 2 /\ inflight = {f}

\* ---- C14 ------------------------------------------------------------------
\* C14: the cursor advances only on success.  When the fetch started by
\* loadMore fails, the next page to request is the one it was before loadMore
\* was called, that is the page that failed; and the cursor changes only in a
\* step that completes a fetch successfully, by one page.
CursorAdvancesOnSuccessOnly ==
    [][/\ \A f \in inflight :
            (SettledStep(f) /\ f.by = "loadMore" /\ last'.o \in FailureOutcomes)
            => nextPage' = f.p
       /\ nextPage' # nextPage
            => /\ \E f \in inflight : SettledStep(f) /\ last'.o \in EnvelopeOutcomes
               /\ nextPage' = nextPage + 1]_vars

\* ---- C15 ------------------------------------------------------------------
\* C15: no page is skipped or repeated.  Whenever no fetch is in flight,
\* items is the in-order concatenation of the pages 1..k for some k >= 0, and
\* whenever loadMore can start a fetch (phase Ready) the page it would
\* request is k + 1.
NoPageSkipped ==
    inflight = {}
        => /\ pages = [i \in 1..Len(pages) |-> i]
           /\ Phase = "Ready" => nextPage = Len(pages) + 1

\* ---- C16 ------------------------------------------------------------------
\* C16: the phase is well defined.  loading and loadingMore are never both
\* true; loading is true exactly while a page-1 fetch is in flight and
\* loadingMore exactly while a fetch of a page > 1 is in flight; and the error
\* is never set while either flag is true.
PhaseWellDefined ==
    /\ ~(loading /\ loadingMore)
    /\ loading <=> (\E f \in inflight : f.p = 1)
    /\ loadingMore <=> (\E f \in inflight : f.p > 1)
    /\ (loading \/ loadingMore) => error = NoError

\* the retry pressed after a failed incremental load: loading is set, the
\* error of that failure is cleared, and the only fetch in flight is page 1
PhaseWellDefined_witness ==
    /\ ev = "retry"
    /\ last.f.by = "loadMore"
    /\ last.o \in FailureOutcomes
    /\ loading /\ ~loadingMore
    /\ error = NoError
    /\ \E f \in inflight : inflight = {f} /\ f.p = 1

\* ---- C17 ------------------------------------------------------------------
\* C17: every issued fetch resolves the phase.  Once the network call of every
\* issued fetchCharacters has returned or failed, whatever the outcome, no
\* exception has escaped, both loading flags are false and the phase is
\* Ready, Exhausted or Failed.
FetchResolves ==
    (mounted /\ inflight = {})
        => /\ ~crashed
           /\ ~loading /\ ~loadingMore
           /\ Phase \in {"Ready", "Exhausted", "Failed"}

\* ---- C18 ------------------------------------------------------------------
\* C18: items is mutated only by fetch completion.  items is [] until the
\* mount effect has run; no trigger (mount, loadMore, retry, card press, back
\* button) changes items; a failed completion does not change it; it changes
\* only in the step that applies the result of a successful fetch.
ItemsChangeOnlyOnSuccess ==
    /\ [](~mounted => (characters = <<>> /\ ~undef))
    /\ [][/\ ev' \in {"mount", "loadMore", "loadMoreReturn", "retry", "select", "close"}
               => UNCHANGED <<characters, undef>>
          /\ \A f \in inflight :
               (SettledStep(f) /\ last'.o \in FailureOutcomes)
               => UNCHANGED <<characters, undef>>
          /\ <<characters, undef>>' # <<characters, undef>>
               => \E f \in inflight : SettledStep(f) /\ last'.o.kind = "json"]_vars

\* the retry pressed after a failed incremental load on a list of two
\* entities: neither the failure nor the press touched the list
ItemsChangeOnlyOnSuccess_witness ==
    /\ ev = "retry"
    /\ last.f.by = "loadMore"
    /\ last.o.kind = "network"
    /\ Len(characters) = 2
    /\ characters = last.f.prev
    /\ \E g \in inflight : g.by = "retry" /\ g.prev = characters

====
